---- MODULE Spec2Model ----
(***************************************************************************)
(* A model of kerchunk/grib2.py: grib_tree (the hierarchy builder and the  *)
(* aggregation adapter) and extract_dataset_chunk_index (the chunk index   *)
(* extractor).                                                             *)
(*                                                                         *)
(* Representation of Python values                                         *)
(*   - a "/"-separated key or path is the sequence of its components, so   *)
(*     key.split("/")[0] is key[1], f"{path}/{key}" is path \o key and     *)
(*     path.split("/")[-1] is path[Len(path)];                             *)
(*   - a dict that the code iterates is a sequence of entries in           *)
(*     insertion order; a dict that is only looked up is a function;       *)
(*   - a JSON document is the record of the attributes it holds, a key     *)
(*     that is absent being Missing and JSON null being None; the          *)
(*     space-separated "coordinates" string is the sequence of its names.  *)
(***************************************************************************)
EXTENDS Integers, Sequences, FiniteSets, TLC

MaxMsgs == 3

None == "<None>"
Missing == "<missing>"

Min(S) == CHOOSE x \in S : \A y \in S : x <= y

InList(x, list) == \E i \in 1..Len(list) : list[i] = x

(***************************************************************************)
(* Values of manifest entries.                                             *)
(***************************************************************************)
NoAttrs ==
  [name |-> Missing, stepType |-> Missing, typeOfLevel |-> Missing,
   GRIB_name |-> Missing, GRIB_stepType |-> Missing,
   GRIB_typeOfLevel |-> Missing, coordinates |-> <<>>]

Str(s) == [t |-> "str", s |-> s, ref |-> <<>>, attrs |-> NoAttrs]
Bytes(s) == [t |-> "bytes", s |-> s, ref |-> <<>>, attrs |-> NoAttrs]
List(uri, offset, length) ==
  [t |-> "list", s |-> "", ref |-> <<uri, offset, length>>, attrs |-> NoAttrs]
Json(a) == [t |-> "str", s |-> "json", ref |-> <<>>, attrs |-> a]
ZJson(a) == [t |-> "bytes", s |-> "json", ref |-> <<>>, attrs |-> a]

GroupAttrs(coordinates) == [NoAttrs EXCEPT !.coordinates = coordinates]
VarAttrs(gname, stepType, typeOfLevel) ==
  [NoAttrs EXCEPT !.GRIB_name = gname, !.GRIB_stepType = stepType,
                  !.GRIB_typeOfLevel = typeOfLevel]

(***************************************************************************)
(* Reference fragments, as scan_grib produces them: the group metadata,    *)
(* then each array's metadata and chunks.                                  *)
(***************************************************************************)
Entry(key, val) == [key |-> key, val |-> val]

Arr(name, attrs, chunks) ==
  <<Entry(<<name, ".zarray">>, Str("zarray")),
    Entry(<<name, ".zattrs">>, Json(attrs))>> \o chunks

Fragment(coordinates, arrays) ==
  [version |-> 1,
   refs |-> <<Entry(<<".zgroup">>, Str("zgroup")),
              Entry(<<".zattrs">>, Json(GroupAttrs(coordinates)))>> \o arrays]

DataChunk == Entry(<<"t2m", "0.0">>, List("a.grib2", 0, 100))

LevelFragment(vname, gname, stepType, level, value) ==
  Fragment(<<level>>,
           Arr(level, NoAttrs, <<Entry(<<level, "0">>, value)>>)
           \o Arr(vname, VarAttrs(gname, stepType, level),
                  <<Entry(<<vname, "0.0">>, List("a.grib2", 0, 100))>>))

FragmentTable ==
  << \* 1, 2: t2m/instant/heightAboveGround with level values 2 and 10
     LevelFragment("t2m", "2 metre temperature", "instant",
                   "heightAboveGround", Str("2")),
     LevelFragment("t2m", "temperature", "instant",
                   "heightAboveGround", Str("10")),
     \* 3: no GRIB attributes at all, but a coordinate named surface: t2m
     Fragment(<<"surface">>,
              Arr("t2m", NoAttrs, <<DataChunk>>)
              \o Arr("surface", NoAttrs,
                     <<Entry(<<"surface", "0">>, Bytes("0"))>>)),
     \* 4: no stepType: t2m/surface
     LevelFragment("t2m", "2 metre temperature", Missing, "surface",
                   Str("0")),
     \* 5: no typeOfLevel and no level coordinate: t2m/instant
     Fragment(<<"time">>,
              Arr("t2m", VarAttrs("2 metre temperature", "instant", None),
                  <<DataChunk>>)
              \o Arr("time", NoAttrs, <<Entry(<<"time", "0">>, Str("t0"))>>)),
     \* 6: a variable that decodes as unknown
     LevelFragment("unknown", "unknown", "instant", "surface", Str("0")),
     \* 7: only coordinates, no data variable
     Fragment(<<"time", "step">>,
              Arr("time", NoAttrs, <<Entry(<<"time", "0">>, Str("t0"))>>)
              \o Arr("step", NoAttrs, <<Entry(<<"step", "0">>, Str("1"))>>)),
     \* 8: a level type named like a default concat dimension
     LevelFragment("t2m", "2 metre temperature", "instant", "step",
                   Str("1")),
     \* 9: empty stepType and a typeOfLevel that decodes as unknown
     LevelFragment("t2m", "2 metre temperature", "", "unknown", Str("0")),
     \* 10: another variable, its level coordinate in eleven chunks of which
     \* the first and the last are byte ranges
     Fragment(<<"heightAboveGround">>,
              Arr("heightAboveGround", NoAttrs,
                  <<Entry(<<"heightAboveGround", "0">>,
                          List("a.grib2", 100, 8)),
                    Entry(<<"heightAboveGround", "10">>,
                          List("a.grib2", 180, 8))>>)
              \o Arr("u10", VarAttrs(Missing, "instant", "heightAboveGround"),
                     <<Entry(<<"u10", "0.0">>, List("a.grib2", 0, 100))>>)) >>

(***************************************************************************)
(* grib_tree: helpers.                                                     *)
(***************************************************************************)
\* The filters in the order that gives typeOfLevel above stepType
filtersReversed == <<"typeOfLevel", "stepType">>

\* filters: the order matters, it determines the hierarchy
filters == <<"stepType", "typeOfLevel">>

GroupMeta == {".zattrs", ".zgroup"}

\* key.split("/")[0]
KeyName(key) == key[1]

\* key.endswith("0"): the components of the model that end in the
\* character 0 are "0", "10" and "0.0"
EndsWith0(key) == key[Len(key)] \in {"0", "10", "0.0"}

\* group["refs"][key]
RefsGet(refs, key) ==
  refs[CHOOSE i \in 1..Len(refs) : refs[i].key = key].val

RefsHas(refs, key) == \E i \in 1..Len(refs) : refs[i].key = key

\* ujson.loads
Loads(val) == val.attrs

\* dattrs.get(f"GRIB_{key}"), dattrs.get("GRIB_name")
DattrsGet(dattrs, gribkey) ==
  IF dattrs[gribkey] = Missing THEN None ELSE dattrs[gribkey]

GribKey == [stepType |-> "GRIB_stepType", typeOfLevel |-> "GRIB_typeOfLevel"]

Coordinates(group) == Loads(RefsGet(group.refs, <<".zattrs">>)).coordinates

\* The loop that finds the data variable: the first key whose name is
\* neither group metadata nor a coordinate
FindVnameNoCoords(group) ==
  LET refs == group.refs
      hits == {i \in 1..Len(refs) : KeyName(refs[i].key) \notin GroupMeta}
  IN IF hits = {} THEN None ELSE KeyName(refs[Min(hits)].key)

FindVname(group) ==
  LET refs == group.refs
      coordinates == Coordinates(group)
      hits == {i \in 1..Len(refs) :
                 /\ KeyName(refs[i].key) \notin GroupMeta
                 /\ ~InList(KeyName(refs[i].key), coordinates)}
  IN IF hits = {} THEN None ELSE KeyName(refs[Min(hits)].key)

\* gfilters: the attribute values that are not None, in filter order
GFilters(dattrs) ==
  SelectSeq([i \in 1..Len(filters) |->
               [key |-> filters[i],
                value |-> DattrsGet(dattrs, GribKey[filters[i]])]],
            LAMBDA e : e.value # None)

\* gfilters.get(key)
GFiltersGet(gfilters, key) ==
  IF \E i \in 1..Len(gfilters) : gfilters[i].key = key
  THEN gfilters[CHOOSE i \in 1..Len(gfilters) : gfilters[i].key = key].value
  ELSE None

(***************************************************************************)
(* The zarr group store: a group is its .zgroup key, its attributes are    *)
(* the JSON document at its .zattrs key.                                   *)
(***************************************************************************)
ZGroup == Bytes("zgroup")

EmptyStore == [k \in {} |-> ZGroup]

\* zarr.open_group(store=zarr_store)
OpenGroup(store) == (<<".zgroup">> :> ZGroup) @@ store

\* zgroup.require_group(name)
RequireGroup(store, path) ==
  IF (path \o <<".zgroup">>) \in DOMAIN store
  THEN store
  ELSE ((path \o <<".zgroup">>) :> ZGroup) @@ store

GroupAttrsOf(store, path) ==
  IF (path \o <<".zattrs">>) \in DOMAIN store
  THEN Loads(store[path \o <<".zattrs">>])
  ELSE NoAttrs

\* zgroup.attrs[name] = value
SetAttr(store, path, name, value) ==
  ((path \o <<".zattrs">>) :>
     ZJson([GroupAttrsOf(store, path) EXCEPT ![name] = value])) @@ store

\* The loop over gfilters.items(): one nested group per non-empty value
RECURSIVE Descend(_, _, _, _)
Descend(store, path, gfilters, i) ==
  IF i > Len(gfilters)
  THEN [store |-> store, path |-> path]
  ELSE IF gfilters[i].value # ""
       THEN LET p == Append(path, gfilters[i].value)
            IN Descend(SetAttr(RequireGroup(store, p), p,
                               gfilters[i].key, gfilters[i].value),
                       p, gfilters, i + 1)
       ELSE Descend(store, path, gfilters, i + 1)

\* aggregations[path].append(group), on an insertion-ordered defaultdict(list)
PrependMember(aggs, path, group) ==
  IF \E i \in 1..Len(aggs) : aggs[i].path = path
  THEN [i \in 1..Len(aggs) |->
          IF aggs[i].path = path
          THEN [aggs[i] EXCEPT !.members = <<group>> \o @]
          ELSE aggs[i]]
  ELSE Append(aggs, [path |-> path, members |-> <<group>>])

AppendMember(aggs, path, group) ==
  IF \E i \in 1..Len(aggs) : aggs[i].path = path
  THEN [i \in 1..Len(aggs) |->
          IF aggs[i].path = path
          THEN [aggs[i] EXCEPT !.members = Append(@, group)]
          ELSE aggs[i]]
  ELSE Append(aggs, [path |-> path, members |-> <<group>>])

\* if isinstance(entry, list): entry = tuple(entry)
Tupled(entry) == IF entry.t = "list" THEN [entry EXCEPT !.t = "tuple"] ELSE entry

\* The level coordinate values of one fragment: the entries whose name is the
\* typeOfLevel value and whose key ends in 0
LevelEntries(group, gfilters) ==
  {Tupled(group.refs[i].val) :
     i \in {j \in 1..Len(group.refs) :
              /\ KeyName(group.refs[j].key) = GFiltersGet(gfilters, "typeOfLevel")
              /\ EndsWith0(group.refs[j].key)}}

\* aggregation_dims[path].add(entry), on a defaultdict(set)
AddDims(dims, path, entries) ==
  IF entries = {}
  THEN dims
  ELSE (path :> ((IF path \in DOMAIN dims THEN dims[path] ELSE {}) \cup entries))
       @@ dims

\* aggregation_dims.get(path, ())
DimsGet(dims, path) == IF path \in DOMAIN dims THEN dims[path] ELSE {}

\* list.insert(i, x) with a 0-based index: past the end it appends
PyInsertFront(list, i, x) == <<x>> \o list

PyInsert(list, i, x) ==
  IF i >= Len(list)
  THEN Append(list, x)
  ELSE SubSeq(list, 1, i) \o <<x>> \o SubSeq(list, i + 1, Len(list))

\* list[i] with a 0-based index
PyAt(list, i) == list[i + 1]

concat_dims == <<"time", "step">>
identical_dims == <<"longitude", "latitude">>

\* The dimension treatment of one node
CatDims(count, level_group_name) ==
  IF count > 1 THEN PyInsert(concat_dims, 3, level_group_name) ELSE concat_dims

IDims(count, level_group_name) ==
  IF count = 1 THEN Append(identical_dims, level_group_name) ELSE identical_dims

\* MultiZarrToZarr(...).translate()["refs"]: the merged mapping of a node. The
\* engine is kerchunk.combine; this is the stub of a trivial merge: every key
\* of every member, with the value of the first member that holds it.
Translate(members) ==
  LET keys == UNION {{members[m].refs[i].key : i \in 1..Len(members[m].refs)} :
                       m \in 1..Len(members)}
      first(k) == Min({m \in 1..Len(members) : RefsHas(members[m].refs, k)})
  IN [k \in keys |-> RefsGet(members[first(k)].refs, k)]

\* The keys of a merged mapping that are copied under the node's path
CopiedKeys(refs) == {k \in DOMAIN refs : k \notin {<<".zattrs">>, <<".zgroup">>}}

\* zarr_store[f"{path}/{key}"] = value, for every copied key
WriteNode(store, path, refs) ==
  [k \in DOMAIN store \cup {path \o key : key \in CopiedKeys(refs)} |->
     IF \E key \in CopiedKeys(refs) : k = path \o key
     THEN refs[CHOOSE key \in CopiedKeys(refs) : k = path \o key]
     ELSE store[k]]

\* val.decode() if isinstance(val, bytes) else val
Decode(val) == IF val.t = "bytes" THEN [val EXCEPT !.t = "str"] ELSE val

(***************************************************************************)
(* extract_dataset_chunk_index: values.  A value of a record, of an         *)
(* attribute or of the manifest is tagged with its Python type; the chunk   *)
(* key "a/b/v/0.1" is the record of its path <<"a", "b", "v">> and of its   *)
(* chunk index <<0, 1>>, and "a/b/v/.zarray" has meta ".zarray".            *)
(***************************************************************************)
MaxVars == 2

XNone == [t |-> "none", s |-> "", n |-> 0, items |-> <<>>]
XStr(s) == [t |-> "str", s |-> s, n |-> 0, items |-> <<>>]
XBytes(s) == [t |-> "bytes", s |-> s, n |-> 0, items |-> <<>>]
XInt(n) == [t |-> "int", s |-> "", n |-> n, items |-> <<>>]
XList(items) == [t |-> "list", s |-> "", n |-> 0, items |-> items]
\* the .zarray document: its "chunks" list
XZarray(chunks) ==
  [t |-> "json", s |-> "", n |-> 0,
   items |-> [i \in 1..Len(chunks) |-> XInt(chunks[i])]]

EmptyDict == [k \in {} |-> XNone]

XKey(path, meta, idx) == [path |-> path, meta |-> meta, idx |-> idx]

\* build_path(path, suffix): the components that are not None, joined, for a
\* metadata suffix and for a chunk suffix
BuildPath(path, meta, idx) ==
  XKey(SelectSeq(path, LAMBDA c : c # None), meta, idx)

RECURSIVE Sum(_)
Sum(seq) == IF seq = <<>> THEN 0 ELSE Head(seq) + Sum(Tail(seq))

RECURSIVE Code(_)
Code(idx) == IF idx = <<>> THEN 0 ELSE Code(SubSeq(idx, 1, Len(idx) - 1)) * 10
                                          + idx[Len(idx)]

\* itertools.product(*[range(v) for v in sizes]): lexicographic, the last
\* index fastest
RECURSIVE ProductFirstFastest(_)
ProductFirstFastest(sizes) ==
  IF sizes = <<>>
  THEN << <<>> >>
  ELSE LET rest == ProductFirstFastest(Tail(sizes))
       IN [k \in 1..(Head(sizes) * Len(rest)) |->
             <<(k - 1) % Head(sizes)>> \o rest[((k - 1) \div Head(sizes)) + 1]]

RECURSIVE Product(_)
Product(sizes) ==
  IF sizes = <<>>
  THEN << <<>> >>
  ELSE LET rest == Product(Tail(sizes))
       IN [k \in 1..(Head(sizes) * Len(rest)) |->
             <<(k - 1) \div Len(rest)>> \o rest[((k - 1) % Len(rest)) + 1]]

(***************************************************************************)
(* The datasets and manifests the extractor is run on.                     *)
(***************************************************************************)
Dim(name, size, chunk) == [name |-> name, size |-> size, chunk |-> chunk]

Layouts ==
  << <<Dim("time", 2, 1)>>,
     <<Dim("time", 2, 1), Dim("step", 2, 1)>>,
     <<Dim("time", 2, 1), Dim("step", 1, 1), Dim("y", 2, 2)>>,
     <<Dim("y", 2, 2), Dim("time", 2, 1)>>,
     <<Dim("time", 1, 1), Dim("y", 3, 2)>>,
     <<Dim("y", 2, 2)>> >>

\* The kind of the manifest entry of a chunk, by the sum of its indices
Patterns ==
  << <<"range">>,
     <<"str", "range">>,
     <<"absent", "bytes", "range">>,
     <<"range", "short">>,
     <<"range", "range", "int">> >>

EntryOfKind(kind, idx) ==
  CASE kind = "range" ->
         XList(<<XStr("a.grib2"), XInt(100 * Code(idx)), XInt(50)>>)
    [] kind = "str" -> XStr("inline")
    [] kind = "bytes" -> XBytes("inline")
    [] kind = "short" -> XList(<<XStr("a.grib2"), XInt(0)>>)
    [] kind = "int" -> XInt(7)

\* The coordinates of a variable: one along each dimension, then the scalar
\* level coordinate
CoordsOf(layout) ==
  [i \in 1..Len(layout) |->
     [name |-> layout[i].name, dims |-> <<layout[i].name>>,
      values |-> [ix \in {<<j>> : j \in 0..(layout[i].size - 1)} |->
                    XInt(10 * (ix[1] + 1))]]]
  \o <<[name |-> "heightAboveGround", dims |-> <<>>,
        values |-> (<<>> :> XInt(2))]>>

DataVar(name, layout) ==
  [name |-> name,
   dims |-> [i \in 1..Len(layout) |-> layout[i].name],
   shape |-> [i \in 1..Len(layout) |-> layout[i].size],
   coords |-> CoordsOf(layout)]

\* The chunk grid of an array: one chunk per index along a dimension of chunk
\* size 1, one chunk along a dimension that a chunk spans
Grid(layout) ==
  {idx \in [1..Len(layout) -> 0..3] :
     \A i \in 1..Len(layout) :
       idx[i] <= (IF layout[i].chunk = 1 THEN layout[i].size - 1 ELSE 0)}

\* The manifest entries of one variable
StoreOf(path, name, layout, pattern) ==
  LET keys == {idx \in Grid(layout) :
                 pattern[(Sum(idx) % Len(pattern)) + 1] # "absent"}
  IN [k \in {XKey(path \o <<name>>, ".zarray", <<>>)}
            \cup {XKey(path \o <<name>>, "", idx) : idx \in keys} |->
        IF k.meta = ".zarray"
        THEN XZarray([i \in 1..Len(layout) |-> layout[i].chunk])
        ELSE EntryOfKind(pattern[(Sum(k.idx) % Len(pattern)) + 1], k.idx)]

VarNames == <<"v1", "v2", "v3">>

\* The node of the tree the extractor is given: its attributes and those of
\* its ancestors, the parent first
Attrs1(k, v) == (k :> XStr(v))

Nodes ==
  << [is_tree |-> FALSE, path |-> <<None>>, grib |-> FALSE,
      attrs |-> Attrs1("name", "ds"), parents |-> <<>>],
     [is_tree |-> TRUE, path |-> <<>>, grib |-> FALSE,
      attrs |-> EmptyDict, parents |-> <<>>],
     [is_tree |-> TRUE, path |-> <<"t2m", "instant">>, grib |-> TRUE,
      attrs |-> Attrs1("stepType", "instant"),
      parents |-> <<Attrs1("name", "2t"), EmptyDict>>],
     [is_tree |-> TRUE, path |-> <<"t2m", "instant">>, grib |-> FALSE,
      attrs |-> Attrs1("name", "leaf"),
      parents |-> <<Attrs1("name", "mid"), Attrs1("name", "root")>>],
     [is_tree |-> TRUE, path |-> <<"t2m", "instant">>, grib |-> TRUE,
      attrs |-> EmptyDict,
      parents |-> <<Attrs1("name", "mid"), Attrs1("name", "root")>>],
     [is_tree |-> TRUE, path |-> <<"t2m">>, grib |-> FALSE,
      attrs |-> Attrs1("offset", "x"), parents |-> <<EmptyDict>>] >>

(***************************************************************************)
(* extract_dataset_chunk_index: helpers.                                   *)
(***************************************************************************)
\* attributes.update(other)
Update(attributes, other) ==
  [k \in DOMAIN attributes \cup DOMAIN other |->
     IF k \in DOMAIN other THEN other[k] ELSE attributes[k]]

\* zarray["chunks"]
Chunks(ref_store, dpath, dname) ==
  LET z == ref_store[BuildPath(dpath \o <<dname>>, ".zarray", <<>>)]
  IN [i \in 1..Len(z.items) |-> z.items[i].n]

\* The positions of zip(dvar.dims, dshape, dchunk)
Zipped(dvar, dchunk) ==
  1..Min({Len(dvar.dims), Len(dvar.shape), Len(dchunk)})

\* A dimension that stops the extraction: its chunk size is neither 1 nor its
\* size
BadDimAny(dvar, dchunk, i) == dchunk[i] # dvar.shape[i]

BadDim(dvar, dchunk, i) == dchunk[i] # 1 /\ dchunk[i] # dvar.shape[i]

\* index_dims: the dimensions of chunk size 1, with their sizes, in order
IndexDims(dvar, dchunk) ==
  LET pos == {i \in Zipped(dvar, dchunk) : dchunk[i] = 1}
      RECURSIVE take(_)
      take(i) ==
        IF i > Len(dvar.dims)
        THEN <<>>
        ELSE (IF i \in pos
              THEN <<[name |-> dvar.dims[i], size |-> dvar.shape[i]]>>
              ELSE <<>>) \o take(i + 1)
  IN take(1)

\* dim_idx = {key: val for key, val in zip(index_dims.keys(), idx)}
DimIdx(index_dims, idx) ==
  [name \in {index_dims[i].name : i \in 1..Len(index_dims)} |->
     idx[CHOOSE i \in 1..Len(index_dims) : index_dims[i].name = name]]

\* The name a coordinate is recorded under
CName(cname, grib) ==
  IF grib /\ cname \notin {"valid_time", "time", "step", "latitude", "longitude"}
  THEN "level"
  ELSE cname

\* coord_vals: the coordinates whose dimensions are all indexed, a later one
\* replacing an earlier one of the same name
CoordVals(dvar, dim_idx, grib) ==
  LET usable == {c \in 1..Len(dvar.coords) :
                   \A d \in 1..Len(dvar.coords[c].dims) :
                     dvar.coords[c].dims[d] \in DOMAIN dim_idx}
      last(name) == CHOOSE c \in usable :
                      /\ CName(dvar.coords[c].name, grib) = name
                      /\ \A c2 \in usable :
                           CName(dvar.coords[c2].name, grib) = name => c2 <= c
  IN [name \in {CName(dvar.coords[c].name, grib) : c \in usable} |->
        dvar.coords[last(name)].values[
          [d \in 1..Len(dvar.coords[last(name)].dims) |->
             dim_idx[dvar.coords[last(name)].dims[d]]]]]

\* chunk_idx = [*idx, *[0] * whole_dim_cnt]
ChunkIdx(dvar, idx) ==
  idx \o [i \in 1..(Len(dvar.dims) - Len(idx)) |-> 0]

\* ref_store.get(chunk_key)
StoreGet(ref_store, key) == IF key \in DOMAIN ref_store THEN ref_store[key] ELSE XNone

\* chunk_data
IsRange(chunk_ref) == chunk_ref.t = "list" /\ Len(chunk_ref.items) = 3
IsInline(chunk_ref) == chunk_ref.t \in {"bytes", "str"}

InlineDataOffset(chunk_ref) ==
  [k \in {"inline_value", "offset", "length"} |->
     CASE k = "inline_value" -> chunk_ref
       [] k = "offset" -> XInt(0)
       [] k = "length" -> XInt(-1)]

InlineData(chunk_ref) ==
  [k \in {"inline_value", "offset", "length"} |->
     CASE k = "inline_value" -> chunk_ref
       [] k = "offset" -> XInt(-1)
       [] k = "length" -> XInt(-1)]

RangeData(chunk_ref) ==
  [k \in {"uri", "offset", "length", "inline_value"} |->
     CASE k = "uri" -> chunk_ref.items[1]
       [] k = "offset" -> chunk_ref.items[2]
       [] k = "length" -> chunk_ref.items[3]
       [] k = "inline_value" -> XNone]

ChunkData(chunk_ref) ==
  IF IsRange(chunk_ref) THEN RangeData(chunk_ref) ELSE InlineData(chunk_ref)

\* dict(varname=dname, **attributes, **coord_vals, **chunk_data) raises a
\* TypeError when a keyword is given twice
Clash(attributes, coord_vals, chunk_data) ==
  \/ "varname" \in DOMAIN attributes \cup DOMAIN coord_vals \cup DOMAIN chunk_data
  \/ DOMAIN attributes \cap DOMAIN coord_vals # {}
  \/ DOMAIN attributes \cap DOMAIN chunk_data # {}
  \/ DOMAIN coord_vals \cap DOMAIN chunk_data # {}

Record(dname, attributes, coord_vals, chunk_data) ==
  [k \in {"varname"} \cup DOMAIN attributes \cup DOMAIN coord_vals
         \cup DOMAIN chunk_data |->
     IF k = "varname" THEN XStr(dname)
     ELSE IF k \in DOMAIN attributes THEN attributes[k]
     ELSE IF k \in DOMAIN coord_vals THEN coord_vals[k]
     ELSE chunk_data[k]]

(***************************************************************************)
(* State: of grib_tree, then of extract_dataset_chunk_index.               *)
(***************************************************************************)
VARIABLES
  message_groups,    \* the input fragments
  msg_ind,           \* fragments consumed so far
  zarr_store,        \* the output mapping under construction
  aggregations,      \* node path -> members, in insertion order
  aggregation_dims,  \* node path -> distinct level values
  unknown_counter,
  agg_pos,           \* nodes aggregated so far
  calls,             \* the invocations of the aggregation engine
  status,            \* "running", "returned" or "raised" ("idle": not run)
  error,
  result

tvars == <<message_groups, msg_ind, zarr_store, aggregations, aggregation_dims,
           unknown_counter, agg_pos, calls, status, error, result>>

VARIABLES
  dset,          \* the node: path, attributes, ancestors, data variables
  ref_store,     \* the manifest
  grib,
  attributes,    \* the attributes collected so far
  walk_group,    \* ancestors visited so far
  var_pos,       \* data variables entered so far
  index_dims,    \* of the current data variable
  todo,          \* the index combinations of the current variable not yet visited
  visited,       \* the combinations visited, with what was done for each
  xresult,       \* the records emitted
  xstatus,       \* "running", "returned" or "raised" ("idle": not run)
  xerror

xvars == <<dset, ref_store, grib, attributes, walk_group, var_pos, index_dims,
           todo, visited, xresult, xstatus, xerror>>

VARIABLES
  mop,             \* the operation called: "build_idx_grib_mapping" or
                   \* "parse_grib_idx" ("idle": neither)
  listing,         \* the lines of the idx file, each a sequence of fields
  fsize,           \* baseinfo["size"], the size of the GRIB file
  extracted,       \* per message, what _extract_single_group returns
  validate,        \* the validate argument of the operation called
  grib_file_index, \* the rows of _map_grib_file_by_group
  idx_file_index,  \* the rows of parse_grib_idx
  merged,          \* the rows of the left merge
  warnings,        \* the warnings logged by the validation
  mreport,         \* <<matched, didn't>> of the ValueError message
  mresult,         \* the rows returned
  mstatus,         \* "mapping", "parsing", "merging", "returned", "raised"
  merror

mvars == <<mop, listing, fsize, extracted, validate, grib_file_index,
           idx_file_index, merged, warnings, mreport, mresult, mstatus,
           merror>>

VARIABLES
  fbytes,          \* the bytes of the file f
  skip,            \* the skip argument
  fpos,            \* f.tell()
  part,            \* the number of messages yielded
  turn,            \* the parity of the number of turns of the loop
  yielded,         \* the last message yielded: <<start, part_size, length read>>
  sstatus,         \* "running", "done" (the generator is exhausted), "raised"
  serror

svars == <<fbytes, skip, fpos, part, turn, yielded, sstatus, serror>>

VARIABLES
  hgroup,          \* the dictionary the caller passed, as the caller sees it
  hlocal,          \* the dictionary the name group is bound to in the callee
  hshared,         \* whether the two are one object
  hresult,
  hstatus,         \* "running", "returned", "raised"
  herror

hvars == <<hgroup, hlocal, hshared, hresult, hstatus, herror>>

ovars == <<mvars, svars, hvars>>

vars == <<tvars, xvars, mvars, svars, hvars>>

NoResult == [refs |-> EmptyStore, version |-> 0]

Inputs ==
  UNION {[1..n -> 1..Len(FragmentTable)] : n \in 0..MaxMsgs}

TreeInit ==
  /\ \E pick \in Inputs :
       message_groups = [i \in DOMAIN pick |-> FragmentTable[pick[i]]]
  /\ msg_ind = 0
  /\ zarr_store = OpenGroup(EmptyStore)
  /\ aggregations = <<>>
  /\ aggregation_dims = [p \in {} |-> {}]
  /\ unknown_counter = 0
  /\ agg_pos = 0
  /\ calls = <<>>
  /\ status = "running"
  /\ error = ""
  /\ result = NoResult

Scanning == status = "running" /\ msg_ind < Len(message_groups)

\* The second loop starts when the first has consumed every fragment
AggregatingEarly ==
  /\ status = "running"
  /\ agg_pos < Len(aggregations)

Aggregating ==
  /\ status = "running"
  /\ msg_ind = Len(message_groups)
  /\ agg_pos < Len(aggregations)

\* The fragment of the current loop iteration
Current == message_groups[msg_ind + 1]

\* if vname == "unknown"
IsUnknownNever(vname) == FALSE

IsUnknown(vname) == vname = "unknown"

\* raise RuntimeError("Can not find a data var ...")
ScanRaise ==
  /\ Scanning
  /\ FindVname(Current) = None
  /\ status' = "raised"
  /\ error' = "StructureError"
  /\ UNCHANGED <<xvars, ovars>>
  /\ UNCHANGED <<message_groups, msg_ind, zarr_store, aggregations,
                 aggregation_dims, unknown_counter, agg_pos, calls, result>>

\* unknown_counter += 1; continue
ScanDrop ==
  /\ Scanning
  /\ FindVname(Current) # None
  /\ IsUnknown(FindVname(Current))
  /\ unknown_counter' = unknown_counter + 1
  /\ msg_ind' = msg_ind + 1
  /\ UNCHANGED <<xvars, ovars>>
  /\ UNCHANGED <<message_groups, zarr_store, aggregations, aggregation_dims,
                 agg_pos, calls, status, error, result>>

\* The placement of a retained fragment: its groups, its node, its level values
Placement(store, group) ==
  LET vname == FindVname(group)
      dattrs == Loads(RefsGet(group.refs, <<vname, ".zattrs">>))
      gfilters == GFilters(dattrs)
      s1 == RequireGroup(store, <<vname>>)
      s2 == IF GroupAttrsOf(s1, <<vname>>).name = Missing
            THEN SetAttr(s1, <<vname>>, "name", DattrsGet(dattrs, "GRIB_name"))
            ELSE s1
      d == Descend(s2, <<vname>>, gfilters, 1)
  IN [store |-> SetAttr(d.store, d.path, "coordinates", Coordinates(group)),
      path |-> d.path,
      levels |-> LevelEntries(group, gfilters)]

ScanPlace ==
  /\ Scanning
  /\ FindVname(Current) # None
  /\ ~IsUnknown(FindVname(Current))
  /\ LET p == Placement(zarr_store, Current)
     IN /\ zarr_store' = p.store
        /\ aggregations' = AppendMember(aggregations, p.path, Current)
        /\ aggregation_dims' = AddDims(aggregation_dims, p.path, p.levels)
  /\ msg_ind' = msg_ind + 1
  /\ UNCHANGED <<xvars, ovars>>
  /\ UNCHANGED <<message_groups, unknown_counter, agg_pos, calls, status,
                 error, result>>

\* One iteration of the loop over aggregations.keys()
Aggregate ==
  /\ Aggregating
  /\ LET node == aggregations[agg_pos + 1]
         count == Cardinality(DimsGet(aggregation_dims, node.path))
         level_group_name == node.path[Len(node.path)]
         catdims == CatDims(count, level_group_name)
         idims == IDims(count, level_group_name)
     IN /\ calls' = Append(calls, [path |-> node.path,
                                   members |-> node.members,
                                   concat_dims |-> catdims,
                                   identical_dims |-> idims])
        /\ zarr_store' = WriteNode(zarr_store, node.path, Translate(node.members))
  /\ agg_pos' = agg_pos + 1
  /\ UNCHANGED <<xvars, ovars>>
  /\ UNCHANGED <<message_groups, msg_ind, aggregations, aggregation_dims,
                 unknown_counter, status, error, result>>

\* The engine rejects the members of the node: the exception propagates
AggregateRaise ==
  /\ Aggregating
  /\ status' = "raised"
  /\ error' = "AggregationError"
  /\ UNCHANGED <<xvars, ovars>>
  /\ UNCHANGED <<message_groups, msg_ind, zarr_store, aggregations,
                 aggregation_dims, unknown_counter, agg_pos, calls, result>>

\* result = dict(refs=zarr_store, version=1), bytes decoded
Return ==
  /\ status = "running"
  /\ msg_ind = Len(message_groups)
  /\ agg_pos = Len(aggregations)
  /\ result' = [refs |-> [k \in DOMAIN zarr_store |-> Decode(zarr_store[k])],
                version |-> 1]
  /\ status' = "returned"
  /\ UNCHANGED <<xvars, ovars>>
  /\ UNCHANGED <<message_groups, msg_ind, zarr_store, aggregations,
                 aggregation_dims, unknown_counter, agg_pos, calls, error>>

TreeNext ==
  \/ ScanRaise
  \/ ScanDrop
  \/ ScanPlace
  \/ Aggregate
  \/ AggregateRaise
  \/ Return


(***************************************************************************)
(* extract_dataset_chunk_index: steps.                                     *)
(***************************************************************************)

\* A data variable: a layout and the pattern of its manifest entries
VarChoices ==
  {<<1, 2>>, <<1, 3>>, <<2, 3>>, <<2, 4>>, <<2, 5>>, <<3, 1>>, <<4, 1>>,
   <<5, 1>>, <<6, 2>>}

DataSets == UNION {[1..n -> VarChoices] : n \in 0..MaxVars}

XInit ==
  /\ \E node \in 1..Len(Nodes), pick \in DataSets :
       LET path == Nodes[node].path
           tpath == SelectSeq(path, LAMBDA c : c # None)
       IN /\ dset = [is_tree |-> Nodes[node].is_tree,
                     path |-> path,
                     attrs |-> Nodes[node].attrs,
                     parents |-> Nodes[node].parents,
                     data_vars |-> [i \in DOMAIN pick |->
                                      DataVar(VarNames[i], Layouts[pick[i][1]])]]
          /\ ref_store =
               [k \in UNION {DOMAIN StoreOf(tpath, VarNames[i], Layouts[pick[i][1]],
                                            Patterns[pick[i][2]]) :
                               i \in DOMAIN pick} |->
                  LET i == CHOOSE j \in DOMAIN pick :
                             k.path = tpath \o <<VarNames[j]>>
                  IN StoreOf(tpath, VarNames[i], Layouts[pick[i][1]],
                             Patterns[pick[i][2]])[k]]
          /\ grib = Nodes[node].grib
          /\ attributes = Nodes[node].attrs
  /\ walk_group = 0
  /\ var_pos = 0
  /\ index_dims = <<>>
  /\ todo = <<>>
  /\ visited = <<>>
  /\ xresult = <<>>
  /\ xstatus = "running"
  /\ xerror = ""

\* while walk_group: attributes.update(walk_group.attrs)
Walking ==
  /\ xstatus = "running"
  /\ dset.is_tree
  /\ walk_group < Len(dset.parents)

Walk ==
  /\ Walking
  /\ attributes' = Update(attributes, dset.parents[walk_group + 1])
  /\ walk_group' = walk_group + 1
  /\ UNCHANGED <<tvars, ovars>>
  /\ UNCHANGED <<dset, ref_store, grib, var_pos, index_dims, todo, visited,
                 xresult, xstatus, xerror>>

\* At the head of the loop over dset.data_vars
AtVarLoop == xstatus = "running" /\ ~Walking /\ todo = <<>>

NextVar == dset.data_vars[var_pos + 1]

\* raise ValueError("Can not extract chunk index for dimension ...")
BadChunks ==
  /\ AtVarLoop
  /\ var_pos < Len(dset.data_vars)
  /\ \E i \in Zipped(NextVar, Chunks(ref_store, dset.path, NextVar.name)) :
       BadDim(NextVar, Chunks(ref_store, dset.path, NextVar.name), i)
  /\ xstatus' = "raised"
  /\ xerror' = "ChunkIndexError"
  /\ UNCHANGED <<tvars, ovars>>
  /\ UNCHANGED <<dset, ref_store, grib, attributes, walk_group, var_pos,
                 index_dims, todo, visited, xresult>>

EnterVar ==
  /\ AtVarLoop
  /\ var_pos < Len(dset.data_vars)
  /\ LET dchunk == Chunks(ref_store, dset.path, NextVar.name)
     IN /\ \A i \in Zipped(NextVar, dchunk) : ~BadDim(NextVar, dchunk, i)
        /\ index_dims' = IndexDims(NextVar, dchunk)
        /\ todo' = Product([i \in 1..Len(index_dims') |-> index_dims'[i].size])
  /\ var_pos' = var_pos + 1
  /\ UNCHANGED <<tvars, ovars>>
  /\ UNCHANGED <<dset, ref_store, grib, attributes, walk_group, visited,
                 xresult, xstatus, xerror>>

\* One iteration of the loop over the index combinations
Visiting == xstatus = "running" /\ todo # <<>>

dvar == dset.data_vars[var_pos]
idx == Head(todo)
chunk_key == BuildPath(dset.path \o <<dvar.name>>, "", ChunkIdx(dvar, idx))
chunk_ref == StoreGet(ref_store, chunk_key)
coord_vals == CoordVals(dvar, DimIdx(index_dims, idx), grib)

Seen(outcome) ==
  Append(visited, [var |-> var_pos, idx |-> idx, key |-> chunk_key,
                   outcome |-> outcome])

\* if chunk_ref is None: continue
Skip ==
  /\ Visiting
  /\ chunk_ref = XNone
  /\ todo' = Tail(todo)
  /\ visited' = Seen("skip")
  /\ UNCHANGED <<tvars, ovars>>
  /\ UNCHANGED <<dset, ref_store, grib, attributes, walk_group, var_pos,
                 index_dims, xresult, xstatus, xerror>>

\* raise ValueError(f"Key {chunk_key} has bad value '{chunk_ref}'")
BadEntry ==
  /\ Visiting
  /\ chunk_ref # XNone
  /\ ~IsRange(chunk_ref) /\ ~IsInline(chunk_ref)
  /\ visited' = Seen("ManifestError")
  /\ xstatus' = "raised"
  /\ xerror' = "ManifestError"
  /\ UNCHANGED <<tvars, ovars>>
  /\ UNCHANGED <<dset, ref_store, grib, attributes, walk_group, var_pos,
                 index_dims, todo, xresult>>

\* result.append(dict(varname=dname, **attributes, **coord_vals, **chunk_data))
Emit ==
  /\ Visiting
  /\ IsRange(chunk_ref) \/ IsInline(chunk_ref)
  /\ ~Clash(attributes, coord_vals, ChunkData(chunk_ref))
  /\ xresult' = Append(xresult, Record(dvar.name, attributes, coord_vals,
                                       ChunkData(chunk_ref)))
  /\ todo' = Tail(todo)
  /\ visited' = Seen(IF IsRange(chunk_ref) THEN "range" ELSE "inline")
  /\ UNCHANGED <<tvars, ovars>>
  /\ UNCHANGED <<dset, ref_store, grib, attributes, walk_group, var_pos,
                 index_dims, xstatus, xerror>>

\* The same statement, when two of the merged mappings share a key
EmitRaise ==
  /\ Visiting
  /\ IsRange(chunk_ref) \/ IsInline(chunk_ref)
  /\ Clash(attributes, coord_vals, ChunkData(chunk_ref))
  /\ visited' = Seen("TypeError")
  /\ xstatus' = "raised"
  /\ xerror' = "TypeError"
  /\ UNCHANGED <<tvars, ovars>>
  /\ UNCHANGED <<dset, ref_store, grib, attributes, walk_group, var_pos,
                 index_dims, todo, xresult>>

\* return result
XReturn ==
  /\ AtVarLoop
  /\ var_pos = Len(dset.data_vars)
  /\ xstatus' = "returned"
  /\ UNCHANGED <<tvars, ovars>>
  /\ UNCHANGED <<dset, ref_store, grib, attributes, walk_group, var_pos,
                 index_dims, todo, visited, xresult, xerror>>

XNext ==
  \/ Walk
  \/ BadChunks
  \/ EnterVar
  \/ Skip
  \/ BadEntry
  \/ Emit
  \/ EmitRaise
  \/ XReturn

(***************************************************************************)
(* parse_grib_idx and build_idx_grib_mapping.  A line of the idx file is   *)
(* the sequence of its fields between colons, a number being the sequence  *)
(* of its digits.  A cell of a numeric column that the merge fills from    *)
(* the GRIB side is a number or NaN; a text cell is a string, NaN or None.  *)
(***************************************************************************)
MaxRows == 3

Num(n) == [na |-> FALSE, n |-> n]
NaN == [na |-> TRUE, n |-> 0]
NaStr == "<NaN>"

\* pd.isna on a numeric cell and on a text cell
IsNa(cell) == cell.na
IsNaStr(cell) == cell \in {NaStr, None}

\* astype(int) on the text of a field
RECURSIVE AsInt(_)
AsInt(digits) ==
  IF digits = <<>>
  THEN 0
  ELSE AsInt(SubSeq(digits, 1, Len(digits) - 1)) * 10 + digits[Len(digits)]

\* str.split(":", expand=True, n=3): three fields, then the rest of the line
Split3(line) ==
  [idx |-> line[1], offset |-> line[2], date |-> line[3],
   attrs |-> SubSeq(line, 4, Len(line))]

\* offset.shift(periods=-1, fill_value=fill)
ShiftBack(column, fill) ==
  [i \in 1..Len(column) |-> IF i > 1 THEN column[i - 1] ELSE fill]

Shift(column, fill) ==
  [i \in 1..Len(column) |-> IF i < Len(column) THEN column[i + 1] ELSE fill]

\* The data frame of parse_grib_idx, a row per line, before set_index("idx")
ParseRows(lines, size) ==
  LET raw == [i \in 1..Len(lines) |-> Split3(lines[i])]
      offset == [i \in 1..Len(lines) |-> AsInt(raw[i].offset)]
      next == Shift(offset, size)
  IN [i \in 1..Len(lines) |->
        [idx |-> AsInt(raw[i].idx), offset |-> offset[i],
         date |-> raw[i].date, attrs |-> raw[i].attrs,
         length |-> next[i] - offset[i],
         idx_uri |-> "a.grib2.idx", grib_uri |-> "a.grib2"]]

\* Series.is_unique
IsUnique(column) ==
  \A i, j \in 1..Len(column) : i # j => column[i] # column[j]

\* validate: bool = False, the default of parse_grib_idx
ValidateAlways == TRUE

DefaultValidate == FALSE

\* What _extract_single_group returns for a message from which no record
\* comes (an empty tree or an empty index)
NoRecord == [none |-> TRUE]

\* k_ind.loc[:, "idx"] = idx
WithIdx(record, i) == [idx |-> i] @@ record

\* _map_grib_file_by_group: the records that are not None, numbered from 1
GribRows(groups) ==
  SelectSeq([i \in 1..Len(groups) |->
               IF groups[i].none THEN NoRecord ELSE WithIdx(groups[i], i)],
            LAMBDA r : ~r.none)

\* The cells of a row of the idx file for which the GRIB side has no row
NoGribRow ==
  [none |-> FALSE, idx |-> 0, varname |-> NaStr, typeOfLevel |-> NaStr,
   stepType |-> NaStr, level |-> NaN, valid_time |-> NaStr, uri |-> NaStr,
   offset |-> NaN, length |-> NaN, inline_value |-> NaStr]

JoinRow(l, g) ==
  [idx |-> l.idx, offset_idx |-> l.offset, length_idx |-> l.length,
   date |-> l.date, attrs |-> l.attrs, idx_uri |-> l.idx_uri,
   grib_uri |-> l.grib_uri, offset_grib |-> g.offset,
   length_grib |-> g.length, varname |-> g.varname,
   typeOfLevel |-> g.typeOfLevel, stepType |-> g.stepType, level |-> g.level,
   valid_time |-> g.valid_time, uri |-> g.uri,
   inline_value |-> g.inline_value]

\* idx_file_index.merge(grib_file_index, on="idx", how="left")
RECURSIVE Merge(_, _)
Merge(left, right) ==
  IF left = <<>>
  THEN <<>>
  ELSE LET l == Head(left)
           hits == SelectSeq(right, LAMBDA g : g.idx = l.idx)
       IN (IF hits = <<>>
           THEN <<JoinRow(l, NoGribRow)>>
           ELSE [k \in 1..Len(hits) |-> JoinRow(l, hits[k])])
          \o Merge(Tail(left), right)

\* all_match_offset and all_match_length, row by row
MatchOffsetInlineToo(r) ==
  \/ ~IsNa(r.offset_grib) /\ r.offset_idx = r.offset_grib.n
  \/ IsNa(r.offset_grib)

MatchOffset(r) ==
  \/ ~IsNa(r.offset_grib) /\ r.offset_idx = r.offset_grib.n
  \/ IsNa(r.offset_grib)
  \/ ~IsNaStr(r.inline_value)

MatchLength(r) ==
  \/ ~IsNa(r.length_grib) /\ r.length_idx = r.length_grib.n
  \/ IsNa(r.length_grib)
  \/ ~IsNaStr(r.inline_value)

AllMatchOffset(rows) == [i \in 1..Len(rows) |-> MatchOffset(rows[i])]
AllMatchLength(rows) == [i \in 1..Len(rows) |-> MatchLength(rows[i])]

\* Series.all() and Series.value_counts() of a column of booleans
All(mask) == \A i \in 1..Len(mask) : mask[i]

ValueCounts(mask) ==
  [b \in {mask[i] : i \in 1..Len(mask)} |->
     Cardinality({i \in 1..Len(mask) : mask[i] = b})]

\* The first of the two checks that fails, <<>> when both pass
FailingMask(rows) ==
  IF ~All(AllMatchOffset(rows)) THEN AllMatchOffset(rows)
  ELSE IF ~All(AllMatchLength(rows)) THEN AllMatchLength(rows)
  ELSE <<>>

\* The index of r_index
CompositeKey(r) ==
  <<r.varname, r.typeOfLevel, r.stepType, r.level, r.valid_time>>

\* The warnings of the two uniqueness checks
Warnings(rows) ==
  (IF IsUnique([i \in 1..Len(rows) |-> rows[i].attrs])
   THEN {} ELSE {"attrs"})
  \cup (IF IsUnique([i \in 1..Len(rows) |-> CompositeKey(rows[i])])
        THEN {} ELSE {"hierarchy"})

\* The idx files: one whose entries are numbered from 0, one numbered from 1
\* as wgrib2 writes them, with two entries of the same description
IdxFiles ==
  << << <<<<0>>, <<0>>, "d1", "A">>,
        <<<<1>>, <<1, 2, 0>>, "d2", "B">>,
        <<<<2>>, <<3, 0, 0>>, "d3", "C">>,
        <<<<3>>, <<3, 6, 0>>, "d4", "C">> >>,
     << <<<<1>>, <<0>>, "d=2024010100", "TMP", "2 m above ground", "anl">>,
        <<<<2>>, <<1, 0, 0>>, "d=2024010100", "TMP", "2 m above ground", "anl">>,
        <<<<3>>, <<2, 5, 0>>, "d=2024010100", "UGRD", "10 m above ground", "anl">>,
        <<<<4>>, <<4, 0, 0>>, "d=2024010100", "GUST", "surface", "anl">> >> >>

\* baseinfo["size"]
FileSizes == {450, 460}

\* The messages of the GRIB file: where each starts and how long it is
MessageAt ==
  <<[offset |-> 0, length |-> 100], [offset |-> 100, length |-> 150],
    [offset |-> 250, length |-> 150], [offset |-> 400, length |-> 50]>>

MessageVar == <<"t2m", "u10", "v10", "gust">>

\* The record extract_datatree_chunk_index gives for message i: a byte range
\* ("range", and "same" with the names of another message), an inline value,
\* and a byte range that is not where the message is
Kinds == {"none", "range", "same", "inline", "offset", "length"}

Extracted(kind, i) ==
  IF kind = "none"
  THEN NoRecord
  ELSE [none |-> FALSE,
        varname |-> IF kind = "same" THEN "t2m" ELSE MessageVar[i],
        typeOfLevel |-> "surface", stepType |-> "instant",
        level |-> Num(0), valid_time |-> "t0",
        uri |-> IF kind = "inline" THEN NaStr ELSE "a.grib2",
        offset |-> IF kind = "inline" THEN Num(-1)
                   ELSE IF kind = "offset" THEN Num(MessageAt[i].offset + 4)
                   ELSE Num(MessageAt[i].offset),
        length |-> IF kind = "inline" THEN Num(-1)
                   ELSE IF kind = "length" THEN Num(MessageAt[i].length + 4)
                   ELSE Num(MessageAt[i].length),
        inline_value |-> IF kind = "inline" THEN "AAAA" ELSE None]

MapInit ==
  /\ \E n \in 1..Min({MaxRows, Len(MessageAt)}) :
       /\ \E file \in 1..Len(IdxFiles) : listing = SubSeq(IdxFiles[file], 1, n)
       /\ \/ /\ mop = "build_idx_grib_mapping"
             /\ \E kinds \in [1..n -> Kinds] :
                  extracted = [i \in 1..n |-> Extracted(kinds[i], i)]
             /\ mstatus = "mapping"
          \/ /\ mop = "parse_grib_idx"
             /\ extracted = <<>>
             /\ mstatus = "parsing"
  /\ fsize \in FileSizes
  /\ validate \in BOOLEAN
  /\ grib_file_index = <<>>
  /\ idx_file_index = <<>>
  /\ merged = <<>>
  /\ warnings = {}
  /\ mreport = <<>>
  /\ mresult = <<>>
  /\ merror = ""

\* pd.concat of the records of the messages, set_index("idx")
MapGribFile ==
  /\ mstatus = "mapping"
  /\ GribRows(extracted) # <<>>
  /\ grib_file_index' = GribRows(extracted)
  /\ mstatus' = "parsing"
  /\ UNCHANGED <<mop, listing, fsize, extracted, validate, idx_file_index,
                 merged, warnings, mreport, mresult, merror>>
  /\ UNCHANGED <<tvars, xvars, svars, hvars>>

\* pd.concat([]) raises ValueError: No objects to concatenate
MapGribFileRaise ==
  /\ mstatus = "mapping"
  /\ GribRows(extracted) = <<>>
  /\ mstatus' = "raised"
  /\ merror' = "NoObjectsToConcatenate"
  /\ UNCHANGED <<mop, listing, fsize, extracted, validate, grib_file_index,
                 idx_file_index, merged, warnings, mreport, mresult>>
  /\ UNCHANGED <<tvars, xvars, svars, hvars>>

\* The validate argument parse_grib_idx runs with: build_idx_grib_mapping
\* does not pass its own
ParseValidate ==
  IF mop = "parse_grib_idx" THEN validate ELSE DefaultValidate

ParseFails ==
  /\ ParseValidate
  /\ ~IsUnique([i \in 1..Len(listing) |-> ParseRows(listing, fsize)[i].attrs])

\* parse_grib_idx
ParseGribIdx ==
  /\ mstatus = "parsing"
  /\ ~ParseFails
  /\ idx_file_index' = ParseRows(listing, fsize)
  /\ IF mop = "parse_grib_idx"
     THEN mstatus' = "returned" /\ mresult' = ParseRows(listing, fsize)
     ELSE mstatus' = "merging" /\ mresult' = mresult
  /\ UNCHANGED <<mop, listing, fsize, extracted, validate, grib_file_index,
                 merged, warnings, mreport, merror>>
  /\ UNCHANGED <<tvars, xvars, svars, hvars>>

\* raise ValueError("Attribute mapping ... is not unique")
ParseGribIdxRaise ==
  /\ mstatus = "parsing"
  /\ ParseFails
  /\ mstatus' = "raised"
  /\ merror' = "NotUnique"
  /\ UNCHANGED <<mop, listing, fsize, extracted, validate, grib_file_index,
                 idx_file_index, merged, warnings, mreport, mresult>>
  /\ UNCHANGED <<tvars, xvars, svars, hvars>>

Merging == mstatus = "merging"

Joined == Merge(idx_file_index, grib_file_index)

\* The merge, the checks that pass, the warnings, return result
MergeReturn ==
  /\ Merging
  /\ validate => FailingMask(Joined) = <<>>
  /\ merged' = Joined
  /\ warnings' = IF validate THEN Warnings(Joined) ELSE {}
  /\ mresult' = Joined
  /\ mstatus' = "returned"
  /\ UNCHANGED <<mop, listing, fsize, extracted, validate, grib_file_index,
                 idx_file_index, mreport, merror>>
  /\ UNCHANGED <<tvars, xvars, svars, hvars>>

\* raise ValueError(f"... {vcs[True]} matched, {vcs[False]} didn't")
MergeRaise ==
  /\ Merging
  /\ validate
  /\ FailingMask(Joined) # <<>>
  /\ TRUE \in DOMAIN ValueCounts(FailingMask(Joined))
  /\ merged' = Joined
  /\ mreport' = <<ValueCounts(FailingMask(Joined))[TRUE],
                  ValueCounts(FailingMask(Joined))[FALSE]>>
  /\ mstatus' = "raised"
  /\ merror' = "ValidationError"
  /\ UNCHANGED <<mop, listing, fsize, extracted, validate, grib_file_index,
                 idx_file_index, warnings, mresult>>
  /\ UNCHANGED <<tvars, xvars, svars, hvars>>

\* vcs[True] when no row matches: value_counts has no entry for True
MergeKeyError ==
  /\ Merging
  /\ validate
  /\ FailingMask(Joined) # <<>>
  /\ TRUE \notin DOMAIN ValueCounts(FailingMask(Joined))
  /\ merged' = Joined
  /\ mstatus' = "raised"
  /\ merror' = "KeyError"
  /\ UNCHANGED <<mop, listing, fsize, extracted, validate, grib_file_index,
                 idx_file_index, warnings, mreport, mresult>>
  /\ UNCHANGED <<tvars, xvars, svars, hvars>>

MapNext ==
  \/ MapGribFile
  \/ MapGribFileRaise
  \/ ParseGribIdx
  \/ ParseGribIdxRaise
  \/ MergeReturn
  \/ MergeRaise
  \/ MergeKeyError

MapIdle ==
  /\ mop = "idle"
  /\ listing = <<>>
  /\ fsize = 0
  /\ extracted = <<>>
  /\ validate = FALSE
  /\ grib_file_index = <<>>
  /\ idx_file_index = <<>>
  /\ merged = <<>>
  /\ warnings = {}
  /\ mreport = <<>>
  /\ mresult = <<>>
  /\ mstatus = "idle"
  /\ merror = ""

(***************************************************************************)
(* _split_file: the file is the sequence of its bytes.  The sizes of the   *)
(* source are kept (the marker of 4 bytes, the seek of 4 bytes back, the   *)
(* size field at bytes 12 to 15 of a message) but for the read of 1024     *)
(* bytes, which is ReadSize bytes here.                                    *)
(***************************************************************************)
MaxSkip == 3

ReadSize == 24

\* b"GRIB"
Marker == <<71, 82, 73, 66>>

SeekBack == 4
SizeFrom == 12
SizeTo == 16

\* f.read(n) at position pos
Read(bytes, pos, n) == SubSeq(bytes, pos + 1, Min({pos + n, Len(bytes)}))

\* The positions of b"GRIB" in head, counted from 0
Finds(head) ==
  {i \in 0..(Len(head) - Len(Marker)) :
     SubSeq(head, i + 1, i + Len(Marker)) = Marker}

\* head[a:b]
Slice(head, a, b) ==
  IF a >= Min({b, Len(head)})
  THEN <<>>
  ELSE SubSeq(head, a + 1, Min({b, Len(head)}))

\* int.from_bytes(bs, "big")
RECURSIVE FromBytes(_)
FromBytes(bs) ==
  IF bs = <<>>
  THEN 0
  ELSE FromBytes(SubSeq(bs, 1, Len(bs) - 1)) * 256 + bs[Len(bs)]

\* A GRIB message of len bytes whose size field holds n, and bytes that hold
\* no marker
Message(n, len) ==
  Marker \o [i \in 1..8 |-> 0] \o <<0, 0, n \div 256, n % 256>>
         \o [i \in 1..(len - 16) |-> 55]

Junk(n) == [i \in 1..n |-> 32]

Files ==
  { <<>>,
    Message(16, 16),
    Message(16, 16) \o Message(20, 20),
    Message(16, 16) \o Message(16, 16) \o Message(16, 16),
    Message(36, 36) \o Message(16, 16),
    \* bytes after the last message
    Message(20, 20) \o Junk(5),
    Message(16, 16) \o Junk(2),
    \* no message at all
    Junk(3),
    Junk(ReadSize + 3),
    \* a size field of 0
    Message(0, 16),
    Message(0, 16) \o Message(16, 16),
    \* a marker in the last 16 bytes of the bytes read, and one cut by them
    Junk(ReadSize - 6) \o Message(16, 16),
    Junk(ReadSize - 2) \o Message(16, 16),
    \* a size field larger than the rest of the file
    Message(40, 16) }

SplitInit ==
  /\ fbytes \in Files
  /\ skip \in 0..MaxSkip
  /\ fpos = 0
  /\ part = 0
  /\ turn = 0
  /\ yielded = <<>>
  /\ sstatus = "running"
  /\ serror = ""

\* while f.tell() < size
Looping == sstatus = "running" /\ fpos < Len(fbytes)

head == Read(fbytes, fpos, ReadSize)
ind == Min(Finds(head))
start == fpos + Len(head) - Len(head) + ind
part_size == FromBytes(Slice(head, ind + SizeFrom, ind + SizeTo))

\* The loop condition fails: the generator is exhausted
SplitEnd ==
  /\ sstatus = "running"
  /\ fpos >= Len(fbytes)
  /\ sstatus' = "done"
  /\ UNCHANGED <<fbytes, skip, fpos, part, turn, yielded, serror>>
  /\ UNCHANGED <<tvars, xvars, mvars, hvars>>

\* if b"GRIB" not in head: f.seek(-4, 1); continue
SplitSeek ==
  /\ Looping
  /\ Finds(head) = {}
  /\ fpos + Len(head) - SeekBack >= 0
  /\ fpos' = fpos + Len(head) - SeekBack
  /\ turn' = 1 - turn
  /\ UNCHANGED <<fbytes, skip, part, yielded, sstatus, serror>>
  /\ UNCHANGED <<tvars, xvars, mvars, hvars>>

\* f.seek(-4, 1) to before the start of the file, on a file object that
\* stops at the start (an in-memory file)
SplitSeekClamp ==
  /\ Looping
  /\ Finds(head) = {}
  /\ fpos + Len(head) - SeekBack < 0
  /\ fpos' = 0
  /\ turn' = 1 - turn
  /\ UNCHANGED <<fbytes, skip, part, yielded, sstatus, serror>>
  /\ UNCHANGED <<tvars, xvars, mvars, hvars>>

\* f.seek(-4, 1) to before the start of the file, on a file object that
\* refuses it (a file of the operating system, a buffered remote file)
SplitSeekRaise ==
  /\ Looping
  /\ Finds(head) = {}
  /\ fpos + Len(head) - SeekBack < 0
  /\ sstatus' = "raised"
  /\ serror' = "SeekError"
  /\ turn' = 1 - turn
  /\ UNCHANGED <<fbytes, skip, fpos, part, yielded>>
  /\ UNCHANGED <<tvars, xvars, mvars, hvars>>

\* part += 1, counted up to MaxSkip + 1: skip is never larger
Counted == IF part <= MaxSkip THEN part + 1 ELSE part

Yield ==
  /\ Looping
  /\ Finds(head) # {}
  /\ fpos' = Min({start + part_size, Len(fbytes)})
  /\ yielded' = <<start, part_size,
                  Min({start + part_size, Len(fbytes)}) - start>>
  /\ part' = Counted
  /\ turn' = 1 - turn
  /\ UNCHANGED <<fbytes, skip, serror>>
  /\ UNCHANGED <<tvars, xvars, mvars, hvars>>

\* yield start, part_size, f.read(part_size), and the loop goes on
SplitYield ==
  /\ Yield
  /\ ~(skip # 0 /\ Counted >= skip)
  /\ sstatus' = sstatus

\* if skip and part >= skip: break
SplitBreak ==
  /\ Yield
  /\ skip # 0 /\ Counted >= skip
  /\ sstatus' = "done"

SplitNext ==
  \/ SplitEnd
  \/ SplitSeek
  \/ SplitSeekClamp
  \/ SplitSeekRaise
  \/ SplitYield
  \/ SplitBreak

SplitIdle ==
  /\ fbytes = <<>>
  /\ skip = 0
  /\ fpos = 0
  /\ part = 0
  /\ turn = 0
  /\ yielded = <<>>
  /\ sstatus = "idle"
  /\ serror = ""

(***************************************************************************)
(* correct_hrrr_subhf_step.  The dictionary the caller passed and the      *)
(* dictionary the name group is bound to in the callee are one object      *)
(* until a copy is bound to the name: an assignment through the name       *)
(* reaches the caller's dictionary exactly while the two are one object.   *)
(***************************************************************************)
\* A scalar array's only chunk, and a number of seconds told in hours
Scalar(n) == [t |-> "str", s |-> "scalar", ref |-> <<n>>, attrs |-> NoAttrs]
Hours(seconds) ==
  [t |-> "str", s |-> "hours", ref |-> <<seconds, 3600>>, attrs |-> NoAttrs]

ScalarArr(name, n) == Arr(name, NoAttrs, <<Entry(<<name, "0">>, Scalar(n))>>)

HrrrFragments ==
  { \* step read as 0 for a forecast of a quarter of an hour
    Fragment(<<"time", "step", "valid_time", "heightAboveGround">>,
             ScalarArr("time", 0) \o ScalarArr("step", 0)
             \o ScalarArr("valid_time", 900)
             \o ScalarArr("heightAboveGround", 2)
             \o Arr("t2m", VarAttrs("2 metre temperature", "instant",
                                    "heightAboveGround"), <<DataChunk>>)),
    Fragment(<<"time", "step", "valid_time">>,
             ScalarArr("time", 3600) \o ScalarArr("step", 1)
             \o ScalarArr("valid_time", 6300)
             \o Arr("t2m", VarAttrs("2 metre temperature", "instant", None),
                    <<DataChunk>>)),
    \* no step at all
    Fragment(<<"time", "valid_time">>,
             ScalarArr("time", 0) \o ScalarArr("valid_time", 1800)
             \o Arr("t2m", VarAttrs("2 metre temperature", "instant", None),
                    <<DataChunk>>)),
    \* a step array that is not listed as a coordinate
    Fragment(<<"time", "valid_time">>,
             ScalarArr("time", 0) \o ScalarArr("valid_time", 2700)
             \o ScalarArr("step", 0)
             \o Arr("t2m", VarAttrs("2 metre temperature", "instant", None),
                    <<DataChunk>>)),
    \* no valid_time, and no time
    Fragment(<<"time", "step">>,
             ScalarArr("time", 0) \o ScalarArr("step", 0)
             \o Arr("t2m", VarAttrs("2 metre temperature", "instant", None),
                    <<DataChunk>>)),
    FragmentTable[1] }

\* copy.deepcopy(group), and the name left on the caller's dictionary
SameObject(obj) == [obj |-> obj, shared |-> TRUE]

DeepCopy(obj) == [obj |-> obj, shared |-> FALSE]

\* group["refs"][key] = val
SetRef(refs, key, val) ==
  IF RefsHas(refs, key)
  THEN [i \in 1..Len(refs) |->
          IF refs[i].key = key THEN Entry(key, val) ELSE refs[i]]
  ELSE Append(refs, Entry(key, val))

\* "step" in attrs["coordinates"], a test on the text of the attribute: of
\* the names of the model only step has it
ContainsStep(coordinates) ==
  \E i \in 1..Len(coordinates) : coordinates[i] \in {"step"}

\* The assignments up to the opening of the dataset
StepDeclared(obj) ==
  LET r1 == SetRef(obj.refs, <<"step", ".zarray">>, Str("zarray"))
      r2 == SetRef(r1, <<"step", ".zattrs">>, Json(NoAttrs))
      attrs == Loads(RefsGet(r2, <<".zattrs">>))
      coords == IF ContainsStep(attrs.coordinates)
                THEN attrs.coordinates
                ELSE Append(attrs.coordinates, "step")
  IN [obj EXCEPT
        !.refs = SetRef(r2, <<".zattrs">>,
                        Json([attrs EXCEPT !.coordinates = coords]))]

\* xd.valid_time and xd.time
HasTimes(obj) ==
  /\ RefsHas(obj.refs, <<"valid_time", "0">>)
  /\ RefsHas(obj.refs, <<"time", "0">>)

\* xd.valid_time.values - xd.time.values
CorrectStep(obj) ==
  RefsGet(obj.refs, <<"valid_time", "0">>).ref[1]
    - RefsGet(obj.refs, <<"time", "0">>).ref[1]

\* group["refs"]["step/0"] = enocded_val
StepCorrected(obj) ==
  [obj EXCEPT !.refs = SetRef(obj.refs, <<"step", "0">>,
                              Hours(CorrectStep(obj)))]

NoGroup == [version |-> 0, refs |-> <<>>]

HrrrInit ==
  /\ hgroup \in HrrrFragments
  /\ hlocal = hgroup
  /\ hshared = TRUE
  /\ hresult = NoGroup
  /\ hstatus = "running"
  /\ herror = ""

\* The whole function: the copy, the assignments, return group
CorrectStepReturn ==
  /\ hstatus = "running"
  /\ LET bound == DeepCopy(hlocal)
         declared == StepDeclared(bound.obj)
     IN /\ HasTimes(declared)
        /\ hlocal' = StepCorrected(declared)
        /\ hshared' = bound.shared
        /\ hgroup' = IF bound.shared THEN StepCorrected(declared) ELSE hgroup
        /\ hresult' = StepCorrected(declared)
  /\ hstatus' = "returned"
  /\ UNCHANGED herror
  /\ UNCHANGED <<tvars, xvars, mvars, svars>>

\* The dataset has no valid_time or no time: the function fails after the
\* first assignments
CorrectStepRaise ==
  /\ hstatus = "running"
  /\ LET bound == DeepCopy(hlocal)
         declared == StepDeclared(bound.obj)
     IN /\ ~HasTimes(declared)
        /\ hlocal' = declared
        /\ hshared' = bound.shared
        /\ hgroup' = IF bound.shared THEN declared ELSE hgroup
  /\ hstatus' = "raised"
  /\ herror' = "AttributeError"
  /\ UNCHANGED hresult
  /\ UNCHANGED <<tvars, xvars, mvars, svars>>

HrrrIdle ==
  /\ hgroup = NoGroup
  /\ hlocal = NoGroup
  /\ hshared = FALSE
  /\ hresult = NoGroup
  /\ hstatus = "idle"
  /\ herror = ""

(***************************************************************************)
(* The operations are run apart: while one runs, the state of the others   *)
(* is idle.                                                                *)
(***************************************************************************)
TreeIdle ==
  /\ message_groups = <<>>
  /\ msg_ind = 0
  /\ zarr_store = EmptyStore
  /\ aggregations = <<>>
  /\ aggregation_dims = [p \in {} |-> {}]
  /\ unknown_counter = 0
  /\ agg_pos = 0
  /\ calls = <<>>
  /\ status = "idle"
  /\ error = ""
  /\ result = NoResult

XIdle ==
  /\ dset = [is_tree |-> FALSE, path |-> <<>>, attrs |-> EmptyDict,
             parents |-> <<>>, data_vars |-> <<>>]
  /\ ref_store = EmptyDict
  /\ grib = FALSE
  /\ attributes = EmptyDict
  /\ walk_group = 0
  /\ var_pos = 0
  /\ index_dims = <<>>
  /\ todo = <<>>
  /\ visited = <<>>
  /\ xresult = <<>>
  /\ xstatus = "idle"
  /\ xerror = ""

TreeStart == TreeInit /\ XIdle /\ MapIdle /\ SplitIdle /\ HrrrIdle

TreeSpec == TreeStart /\ [][TreeNext]_vars

ExtractStart == XInit /\ TreeIdle /\ MapIdle /\ SplitIdle /\ HrrrIdle

ExtractSpec == ExtractStart /\ [][XNext]_vars

MapStart == MapInit /\ TreeIdle /\ XIdle /\ SplitIdle /\ HrrrIdle

MapSpec == MapStart /\ [][MapNext]_vars

SplitStart == SplitInit /\ TreeIdle /\ XIdle /\ MapIdle /\ HrrrIdle

\* scan_grib asks the generator for the next message until it is exhausted
SplitSpec == SplitStart /\ [][SplitNext]_vars /\ WF_vars(SplitNext)

\* grib_tree or correct_hrrr_subhf_step, on the caller's fragments
FrameStart ==
  /\ XIdle /\ MapIdle /\ SplitIdle
  /\ \/ TreeInit /\ HrrrIdle
     \/ TreeIdle /\ HrrrInit

FrameNext ==
  \/ ScanRaise
  \/ ScanDrop
  \/ ScanPlace
  \/ Aggregate
  \/ AggregateRaise
  \/ Return
  \/ CorrectStepReturn
  \/ CorrectStepRaise

FrameSpec == FrameStart /\ [][FrameNext]_vars

(***************************************************************************)
(* grib_tree: what the claims speak of, stated on the fragments themselves *)
(***************************************************************************)
\* The top-level names of a fragment that are neither group metadata nor
\* listed in its coordinates attribute
PrimaryNames(f) ==
  {KeyName(f.refs[i].key) : i \in 1..Len(f.refs)}
    \ (GroupMeta \cup {Coordinates(f)[i] : i \in 1..Len(Coordinates(f))})

HasNoPrimary(f) == PrimaryNames(f) = {}
NamedUnknown(f) == PrimaryNames(f) = {"unknown"}
Retained(f) == ~HasNoPrimary(f) /\ ~NamedUnknown(f)

\* The group path of a retained fragment: the variable, then the non-empty
\* stepType, then the non-empty typeOfLevel
Level(v) == IF v \in {Missing, None, ""} THEN <<>> ELSE <<v>>

ExpectedPath(f) ==
  LET v == CHOOSE n \in PrimaryNames(f) : TRUE
      a == RefsGet(f.refs, <<v, ".zattrs">>).attrs
  IN <<v>> \o Level(a.GRIB_stepType) \o Level(a.GRIB_typeOfLevel)

Consumed == SubSeq(message_groups, 1, msg_ind)

MembersOf(input, path) ==
  SelectSeq(input, LAMBDA f : Retained(f) /\ ExpectedPath(f) = path)

CallSet == {calls[i] : i \in 1..Len(calls)}
NodeSet == {aggregations[i] : i \in 1..Len(aggregations)}

\* The level names of an engine call: the typeOfLevel of the members that
\* brought a level value
LevelNames(c) ==
  {RefsGet(c.members[m].refs,
           <<CHOOSE n \in PrimaryNames(c.members[m]) : TRUE, ".zattrs">>)
     .attrs.GRIB_typeOfLevel :
     m \in {j \in 1..Len(c.members) :
              LevelEntries(c.members[j],
                           GFilters(Loads(RefsGet(c.members[j].refs,
                              <<FindVname(c.members[j]), ".zattrs">>)))) # {}}}

LevelCount(c) == Cardinality(DimsGet(aggregation_dims, c.path))

\* C1 as claimed: with one distinct level value the level name is in
\* identical_dims and not in concat_dims; with two or more it is at index 3 of
\* concat_dims and not in identical_dims.
C1_AsClaimed ==
  \A c \in CallSet : \A name \in LevelNames(c) :
    /\ LevelCount(c) = 1 =>
         InList(name, c.identical_dims) /\ ~InList(name, c.concat_dims)
    /\ LevelCount(c) >= 2 =>
         /\ Len(c.concat_dims) > 3
         /\ PyAt(c.concat_dims, 3) = name
         /\ ~InList(name, c.identical_dims)

\* C1 as amended: with one distinct level value the level name is in
\* identical_dims, and in concat_dims only when it is itself a default concat
\* dimension; with two or more it is the third and last element of concat_dims
\* (index 2 counting from 0), and in identical_dims only when it is itself a
\* default identical dimension.
C1_LevelDimPlacement ==
  \A c \in CallSet : \A name \in LevelNames(c) :
    /\ LevelCount(c) = 1 =>
         /\ InList(name, c.identical_dims)
         /\ InList(name, c.concat_dims) => InList(name, concat_dims)
         /\ c.concat_dims = concat_dims
    /\ LevelCount(c) >= 2 =>
         /\ Len(c.concat_dims) = 3
         /\ PyAt(c.concat_dims, 2) = name
         /\ SubSeq(c.concat_dims, 1, 2) = concat_dims
         /\ InList(name, c.identical_dims) => InList(name, identical_dims)
         /\ c.identical_dims = identical_dims

C1_Witness ==
  \E c1, c2 \in CallSet :
    /\ LevelCount(c1) = 1 /\ LevelNames(c1) # {}
    /\ LevelCount(c2) >= 2 /\ LevelNames(c2) # {}

\* C2: a fragment whose primary variable is named unknown is skipped without
\* error: each one consumed has added exactly one to the drop counter, none is
\* a member of a node, none has created a group, no key of the store or of the
\* returned manifest lies under a top-level unknown node, and the run never
\* fails on such a fragment.
C2_UnknownDropped ==
  /\ unknown_counter =
       Cardinality({i \in 1..msg_ind : NamedUnknown(message_groups[i])})
  /\ \A n \in NodeSet : \A m \in 1..Len(n.members) :
       ~NamedUnknown(n.members[m])
  /\ \A k \in DOMAIN zarr_store \cup DOMAIN result.refs : k[1] # "unknown"
  /\ (status = "raised" /\ msg_ind < Len(message_groups)) =>
       ~NamedUnknown(Current)

C2_Witness ==
  /\ status = "returned"
  /\ Len(message_groups) = 3
  /\ Retained(message_groups[1])
  /\ NamedUnknown(message_groups[2])
  /\ Retained(message_groups[3])

\* C3: grib_tree ends with a StructureError and no manifest exactly when some
\* input fragment has no primary variable; such a fragment is never passed
\* over.
C3_StructureError ==
  /\ \A i \in 1..msg_ind : ~HasNoPrimary(message_groups[i])
  /\ status # "running" =>
       ((status = "raised" /\ error = "StructureError")
          <=> \E i \in 1..Len(message_groups) : HasNoPrimary(message_groups[i]))
  /\ status = "raised" => result = NoResult
  /\ status = "returned" => result.version = 1

C3_Witness ==
  /\ status = "raised"
  /\ error = "StructureError"
  /\ msg_ind = 2
  /\ Len(aggregations) >= 1
  /\ unknown_counter = 1

\* C4: the member list of each node is the retained fragments consumed so far
\* whose group path is the node's path, each once and in input order; every
\* such path has one node; and the engine receives, for a node, that list over
\* the whole input.
C4_MemberOrder ==
  /\ \A n \in NodeSet : n.members = MembersOf(Consumed, n.path)
  /\ \A i, j \in 1..Len(aggregations) :
       aggregations[i].path = aggregations[j].path => i = j
  /\ \A i \in 1..msg_ind :
       Retained(message_groups[i]) =>
         \E n \in NodeSet : n.path = ExpectedPath(message_groups[i])
  /\ \A c \in CallSet :
       c.members = MembersOf(message_groups, c.path) /\ c.members # <<>>

C4_Witness ==
  /\ status = "returned"
  /\ Len(calls) = 2
  /\ \E c \in CallSet :
       /\ Len(c.members) = 2
       /\ c.members[1] # c.members[2]
       /\ c.members[1] = message_groups[1]
       /\ c.members[2] = message_groups[3]

Groups == {SubSeq(k, 1, Len(k) - 1) : k \in {g \in DOMAIN zarr_store :
                                               g[Len(g)] = ".zgroup"}}

\* The keys that the aggregation of a node has written
Written(c) == {c.path \o k : k \in CopiedKeys(Translate(c.members))}

C6_DisjointWrites ==
  \A i \in 1..Len(calls) :
    \A k \in Written(calls[i]) :
      /\ \A j \in 1..Len(calls) : j # i => k \notin Written(calls[j])
      /\ \A g \in Groups \ {calls[i].path} :
           k \notin {g \o <<".zattrs">>, g \o <<".zgroup">>}

(***************************************************************************)
(* extract_dataset_chunk_index: what the claims speak of.                  *)
(***************************************************************************)
\* The attributes of the node and of its ancestors, the closest first
Chain == <<dset.attrs>> \o (IF dset.is_tree THEN dset.parents ELSE <<>>)

ChainNames == UNION {DOMAIN Chain[i] : i \in 1..Len(Chain)}

Closest(name) ==
  Chain[Min({i \in 1..Len(Chain) : name \in DOMAIN Chain[i]})][name]

RecordSet == {xresult[i] : i \in 1..Len(xresult)}

\* C7 as claimed: every emitted record carries, for an attribute set on the
\* node or on its ancestors, the value of the node closest to the variable.
C7_ClosestWins ==
  \A r \in RecordSet : \A name \in ChainNames :
    name \in DOMAIN r /\ r[name] = Closest(name)

\* The visits that emitted a record, in order
Emitting == SelectSeq(visited, LAMBDA v : v.outcome \in {"range", "inline"})

IsTriple(e) == e.t = "list" /\ Len(e.items) = 3
IsText(e) == e.t \in {"str", "bytes"}

\* C8: every emitted record is inline (inline_value is the manifest entry,
\* offset and length are -1, no uri) or a byte range (uri, offset and length
\* are the three elements of the manifest entry, inline_value is unset); none
\* has inline_value set with an offset other than -1.
C8_OneForm ==
  /\ Len(Emitting) = Len(xresult)
  /\ \A i \in 1..Len(xresult) :
       LET r == xresult[i]
           e == ref_store[Emitting[i].key]
       IN /\ {"inline_value", "offset", "length"} \subseteq DOMAIN r
          /\ r["inline_value"] # XNone => r["offset"] = XInt(-1)
          /\ \/ /\ IsText(e)
                /\ r["inline_value"] = e
                /\ r["offset"] = XInt(-1)
                /\ r["length"] = XInt(-1)
                /\ "uri" \notin DOMAIN r
             \/ /\ IsTriple(e)
                /\ r["inline_value"] = XNone
                /\ "uri" \in DOMAIN r
                /\ <<r["uri"], r["offset"], r["length"]>> = e.items

C8_Witness ==
  /\ xstatus = "returned"
  /\ \E r1, r2 \in RecordSet :
       /\ r1["inline_value"] # XNone
       /\ r2["inline_value"] = XNone
       /\ "name" \in DOMAIN r1
       /\ "time" \in DOMAIN r2

\* The dimensions of a data variable, by its chunk sizes in the manifest
ChunkOf(v, i) == ref_store[XKey(SelectSeq(dset.path, LAMBDA c : c # None)
                                  \o <<dset.data_vars[v].name>>,
                                ".zarray", <<>>)].items[i].n
SizeOf(v, i) == dset.data_vars[v].shape[i]
DimsOf(v) == 1..Len(dset.data_vars[v].dims)

Partial(v) == \E i \in DimsOf(v) : ChunkOf(v, i) # 1 /\ ChunkOf(v, i) # SizeOf(v, i)
Indexable(v) == {i \in DimsOf(v) : ChunkOf(v, i) = 1}

\* Lexicographic order of two index combinations of one length
RECURSIVE LexLess(_, _)
LexLess(a, b) ==
  /\ a # <<>>
  /\ \/ Head(a) < Head(b)
     \/ Head(a) = Head(b) /\ LexLess(Tail(a), Tail(b))

\* What a visit does, by the manifest entry at its chunk key, as claimed
OutcomeAsClaimed(v) ==
  LET e == StoreGet(ref_store, v.key)
  IN IF e = XNone THEN "skip"
     ELSE IF IsTriple(e) THEN "range"
     ELSE IF IsText(e) THEN "inline"
     ELSE "ManifestError"

\* The same, with the failure of a record whose fields share a name: the
\* fields are varname, the collected attributes, the coordinates whose
\* dimensions are all indexed, and the chunk fields
FieldNamesClash(v) ==
  LET var == dset.data_vars[v.var]
      indexed == {var.dims[i] : i \in Indexable(v.var)}
      cnames == {CName(var.coords[c].name, grib) :
                   c \in {j \in 1..Len(var.coords) :
                            \A d \in 1..Len(var.coords[j].dims) :
                              var.coords[j].dims[d] \in indexed}}
      fields == {"uri", "offset", "length", "inline_value", "varname"}
  IN \/ DOMAIN attributes \cap (cnames \cup fields) # {}
     \/ cnames \cap fields # {}

Outcome(v) ==
  IF OutcomeAsClaimed(v) \in {"range", "inline"} /\ FieldNamesClash(v)
  THEN "TypeError"
  ELSE OutcomeAsClaimed(v)

VisitOrder ==
  /\ \A i \in 1..(Len(visited) - 1) :
       \/ visited[i].var < visited[i + 1].var
       \/ /\ visited[i].var = visited[i + 1].var
          /\ LexLess(visited[i].idx, visited[i + 1].idx)
  /\ \A i \in 1..Len(visited) :
       visited[i].outcome \in {"ManifestError", "TypeError"} =>
         i = Len(visited) /\ xstatus = "raised" /\ xerror = visited[i].outcome
  /\ Len(Emitting) = Len(xresult)
  /\ \A i \in 1..Len(xresult) :
       /\ xresult[i]["varname"] = XStr(dset.data_vars[Emitting[i].var].name)
       /\ IsTriple(ref_store[Emitting[i].key]) =>
            xresult[i]["offset"] = ref_store[Emitting[i].key].items[2]

RECURSIVE Prod(_, _)
Prod(v, S) ==
  IF S = {} THEN 1
  ELSE LET i == CHOOSE j \in S : TRUE IN SizeOf(v, i) * Prod(v, S \ {i})

VisitsOf(v) == SelectSeq(visited, LAMBDA e : e.var = v)

\* What holds of a variable once it is entered: its index key space is its
\* dimensions of chunk size 1, and it has one combination for each choice of
\* an index along each of them
KeySpace(v) ==
  /\ v = var_pos =>
       /\ {index_dims[i].name : i \in 1..Len(index_dims)} =
            {dset.data_vars[v].dims[i] : i \in Indexable(v)}
       /\ Len(index_dims) = Cardinality(Indexable(v))
       /\ Len(VisitsOf(v)) + Len(todo) = Prod(v, Indexable(v))
            \/ (xstatus = "raised" /\ Len(VisitsOf(v)) + Len(todo) - 1
                                        = Prod(v, Indexable(v)))
  /\ v < var_pos => Len(VisitsOf(v)) = Prod(v, Indexable(v))
  /\ \A e \in {visited[i] : i \in 1..Len(visited)} :
       e.var = v => Len(e.idx) = Cardinality(Indexable(v))

\* C10 as claimed: the extraction ends with a ChunkIndexError exactly when
\* some data variable has a dimension whose chunk size is neither 1 nor the
\* size of the dimension; otherwise the key space of a variable is its
\* dimensions of chunk size 1.
C10_AsClaimed ==
  /\ xstatus \in {"returned", "raised"} =>
       ((xstatus = "raised" /\ xerror = "ChunkIndexError")
          <=> \E v \in 1..Len(dset.data_vars) : Partial(v))
  /\ \A v \in 1..var_pos : KeySpace(v)

\* C10 as amended: the extraction ends with a ChunkIndexError exactly when it
\* reaches, in the order of the data variables, a variable with such a
\* dimension, which it does unless a combination of an earlier variable has
\* ended it with another error; it visits no combination of that variable,
\* and it never returns when a variable has such a dimension.  The key space
\* of a variable it enters is as claimed.
C10_ChunkIndexError ==
  /\ \A v \in 1..var_pos : ~Partial(v)
  /\ xstatus \in {"returned", "raised"} =>
       /\ (xstatus = "raised" /\ xerror = "ChunkIndexError")
            <=> /\ var_pos < Len(dset.data_vars)
                /\ Partial(var_pos + 1)
                /\ todo = <<>>
       /\ xstatus = "returned" =>
            \A v \in 1..Len(dset.data_vars) : ~Partial(v)
       /\ (xstatus = "raised" /\ xerror # "ChunkIndexError") =>
            /\ todo # <<>>
            /\ visited # <<>>
            /\ visited[Len(visited)].var = var_pos
            /\ visited[Len(visited)].outcome = xerror
  /\ \A v \in 1..var_pos : KeySpace(v)

C10_Witness ==
  /\ xstatus = "raised"
  /\ xerror = "ChunkIndexError"
  /\ var_pos = 1
  /\ Len(dset.data_vars[1].dims) = 3
  /\ Cardinality(Indexable(1)) = 2
  /\ Len(VisitsOf(1)) = 2

(***************************************************************************)
(* grib_tree: node paths and level values.                                 *)
(***************************************************************************)
\* The attributes of the data variable of a retained fragment
VarAttrsOf(f) ==
  RefsGet(f.refs, <<CHOOSE n \in PrimaryNames(f) : TRUE, ".zattrs">>).attrs

Prefixes(path) == {SubSeq(path, 1, n) : n \in 1..Len(path)}

\* C16: the node of a retained fragment is its variable name, then its
\* stepType value, then its typeOfLevel value, in that order; a missing, null
\* or empty value adds no nesting level, a value "unknown" is a nesting level
\* named unknown, and every level of the path is a group of the output store.
C16_NodePath ==
  \A n \in NodeSet : \A m \in 1..Len(n.members) :
    LET f == n.members[m]
        a == VarAttrsOf(f)
        step == a.GRIB_stepType
        level == a.GRIB_typeOfLevel
        hasStep == step \notin {Missing, None, ""}
        hasLevel == level \notin {Missing, None, ""}
    IN /\ n.path[1] \in PrimaryNames(f)
       /\ Len(n.path) = 1 + (IF hasStep THEN 1 ELSE 0)
                          + (IF hasLevel THEN 1 ELSE 0)
       /\ hasStep => n.path[2] = step
       /\ hasLevel => n.path[Len(n.path)] = level
       /\ \A p \in Prefixes(n.path) : (p \o <<".zgroup">>) \in DOMAIN zarr_store

C16_Witness ==
  /\ status = "returned"
  /\ \E n1, n2, n3 \in NodeSet :
       /\ n1.path = <<"t2m", "unknown">>
       /\ VarAttrsOf(n1.members[1]).GRIB_stepType = ""
       /\ n2.path = <<"t2m", "instant", "heightAboveGround">>
       /\ n3.path = <<"t2m", "instant">>
       /\ VarAttrsOf(n3.members[1]).GRIB_typeOfLevel = None

\* A key of the first chunk of an array: every index of the chunk is 0
FirstChunk(key) == Len(key) = 2 /\ key[2] \in {"0", "0.0"}

\* The values of the level coordinate's first chunk in a list of fragments
FirstChunkValues(members) ==
  UNION {{Tupled(members[m].refs[i].val) :
            i \in {j \in 1..Len(members[m].refs) :
                     /\ KeyName(members[m].refs[j].key)
                          = VarAttrsOf(members[m]).GRIB_typeOfLevel
                     /\ FirstChunk(members[m].refs[j].key)}} :
         m \in 1..Len(members)}

\* C17 as claimed: the distinct-level-value set of a node holds exactly the
\* values (lists as tuples) of its members' entries whose name is the node's
\* level type and whose key is the first chunk; an entry under a metadata key
\* or under another chunk key, such as one ending in 10, is never collected.
C17_LevelValues ==
  \A n \in NodeSet :
    DimsGet(aggregation_dims, n.path) = FirstChunkValues(n.members)

(***************************************************************************)
(* extract_dataset_chunk_index: the chunk key of a combination.            *)
(***************************************************************************)
\* The position of dimension i of variable v among the indexable dimensions
RankOf(v, i) == Cardinality({j \in Indexable(v) : j <= i})

\* C18 as claimed: the chunk key of an index combination has one component
\* per dimension of the variable; at the position of an indexable dimension it
\* is the combination's index for that dimension, at the position of a
\* whole-dimension axis it is 0.
C18_KeyPositions ==
  \A n \in 1..Len(visited) :
    LET v == visited[n].var
        key == visited[n].key.idx
    IN /\ Len(key) = Len(dset.data_vars[v].dims)
       /\ \A i \in DimsOf(v) :
            key[i] = IF i \in Indexable(v)
                     THEN visited[n].idx[RankOf(v, i)]
                     ELSE 0

(***************************************************************************)
(* parse_grib_idx and build_idx_grib_mapping: what the claims speak of,    *)
(* stated on the idx file and on the records of the messages.              *)
(***************************************************************************)
Entries == 1..Len(listing)

AuthIdx(i) == AsInt(listing[i][1])
AuthOffset(i) == AsInt(listing[i][2])
AuthLength(i) ==
  IF i < Len(listing) THEN AuthOffset(i + 1) - AuthOffset(i)
  ELSE fsize - AuthOffset(i)

Parsed == idx_file_index # <<>>

\* C14: parse_grib_idx gives entry i the offset of its line and the length
\* o_(i+1) - o_i, the last entry the length S - o_n; the lengths sum to
\* S - o_1; the offsets 0, 120, 300 with size 450 give 120, 180, 150.
C14_ForwardDifference ==
  Parsed =>
    /\ Len(idx_file_index) = Len(listing)
    /\ \A i \in Entries :
         /\ idx_file_index[i].offset = AuthOffset(i)
         /\ idx_file_index[i].length = AuthLength(i)
    /\ Sum([i \in Entries |-> idx_file_index[i].length])
         = fsize - AuthOffset(1)
    /\ ([i \in Entries |-> AuthOffset(i)] = <<0, 120, 300>> /\ fsize = 450)
         => [i \in Entries |-> idx_file_index[i].length] = <<120, 180, 150>>

C14_Witness ==
  /\ mstatus = "returned"
  /\ [i \in Entries |-> AuthOffset(i)] = <<0, 120, 300>>
  /\ fsize = 450
  /\ [i \in Entries |-> idx_file_index[i].length] = <<120, 180, 150>>

\* The record computed for the message an entry of the idx file is joined
\* with
Computed(i) ==
  IF AuthIdx(i) \in 1..Len(extracted) THEN extracted[AuthIdx(i)] ELSE NoRecord

Available(i) == ~Computed(i).none
IsInlineRecord(i) == Available(i) /\ Computed(i).inline_value # None
OffsetDiffers(i) ==
  /\ Available(i) /\ ~IsInlineRecord(i)
  /\ Computed(i).offset.n # AuthOffset(i)
LengthDiffers(i) ==
  /\ Available(i) /\ ~IsInlineRecord(i)
  /\ Computed(i).length.n # AuthLength(i)

Mismatch == \E i \in Entries : OffsetDiffers(i) \/ LengthDiffers(i)

\* A call of build_idx_grib_mapping with validate=True that has ended after
\* it had rows to join
Validated ==
  /\ mop = "build_idx_grib_mapping"
  /\ validate
  /\ mstatus \in {"returned", "raised"}
  /\ merror # "NoObjectsToConcatenate"

Mismatched ==
  IF \E i \in Entries : OffsetDiffers(i)
  THEN {i \in Entries : OffsetDiffers(i)}
  ELSE {i \in Entries : LengthDiffers(i)}

\* C12 as claimed: when k >= 1 of the n joined rows do not match, the call
\* fails with a ValidationError that reports n - k rows matched and k not,
\* for every k from 1 to n.
C12_MismatchReport ==
  (Validated /\ Mismatched # {}) =>
    /\ mstatus = "raised"
    /\ merror = "ValidationError"
    /\ mreport = <<Len(listing) - Cardinality(Mismatched),
                   Cardinality(Mismatched)>>

\* The composite key of the row of entry i, NaN where no record was computed
KeyOf(i) ==
  IF Available(i)
  THEN <<Computed(i).varname, Computed(i).typeOfLevel, Computed(i).stepType,
         Computed(i).level, Computed(i).valid_time>>
  ELSE <<NaStr, NaStr, NaStr, NaN, NaStr>>

DuplicateAttrs ==
  \E i, j \in Entries :
    i # j /\ SubSeq(listing[i], 4, Len(listing[i]))
               = SubSeq(listing[j], 4, Len(listing[j]))

DuplicateKeys == \E i, j \in Entries : i # j /\ KeyOf(i) = KeyOf(j)

\* C13: a validated call whose rows were joined never fails for data that
\* are not unique: it fails only for an offset or a length that does not
\* match, and otherwise returns the merged rows, one per entry of the idx
\* file, with a warning for duplicate descriptors and a warning for
\* duplicate composite keys.
C13_DuplicatesWarnOnly ==
  Validated =>
    /\ mstatus = "raised" => (Mismatch /\ warnings = {})
    /\ ~Mismatch =>
         /\ mstatus = "returned"
         /\ mresult = merged
         /\ Len(mresult) = Len(listing)
         /\ "attrs" \in warnings <=> DuplicateAttrs
         /\ "hierarchy" \in warnings <=> DuplicateKeys

C13_Witness ==
  /\ Validated
  /\ mstatus = "returned"
  /\ DuplicateAttrs /\ DuplicateKeys
  /\ warnings = {"attrs", "hierarchy"}
  /\ \A i \in Entries : Available(i)

(***************************************************************************)
(* The input fragments of grib_tree and of correct_hrrr_subhf_step.        *)
(***************************************************************************)
StepOverridden(obj) ==
  /\ RefsHas(obj.refs, <<"step", "0">>)
  /\ RefsGet(obj.refs, <<"step", "0">>).s = "hours"

\* C15: no step of grib_tree and none of correct_hrrr_subhf_step changes an
\* input fragment, whether the operation returns or fails; the dictionary
\* correct_hrrr_subhf_step returns is not the caller's, and it alone has the
\* step override.
C15_InputsUnchanged ==
  /\ [][message_groups' = message_groups /\ hgroup' = hgroup]_vars
  /\ [](hstatus = "returned" =>
          /\ ~hshared
          /\ StepOverridden(hresult)
          /\ ~StepOverridden(hgroup))

C15_Witness ==
  /\ hstatus = "returned"
  /\ RefsHas(hgroup.refs, <<"step", "0">>)
  /\ RefsGet(hgroup.refs, <<"step", "0">>) = Scalar(0)
  /\ RefsGet(hresult.refs, <<"step", "0">>) = Hours(900)

(***************************************************************************)
(* _split_file: termination.                                               *)
(***************************************************************************)
\* C19 as claimed: on every file the loop ends, at the end of the file or at
\* the skip limit, and with a skip that is not 0 no more than skip messages
\* are yielded.
C19_Terminates ==
  /\ <>(sstatus \in {"done", "raised"})
  /\ [](skip # 0 => part <= skip)
====
